---------------------------- MODULE Spec2Model ----------------------------
(***************************************************************************)
(* Model of src/src/camFusion_Student.cpp: the camera/lidar fusion core of *)
(* a time-to-collision pipeline.  Five operations are modelled, each as    *)
(* one action that performs the whole C++ function:                        *)
(*                                                                         *)
(*   clusterLidarWithROI       lidar points -> bounding boxes              *)
(*   clusterKptMatchesWithROI  keypoint matches -> one bounding box        *)
(*   matchBoundingBoxes        vote matrix -> bbBestMatches                *)
(*   computeTTCLidar           closest in-lane distance -> TTC             *)
(*   computeTTCCamera          distance ratios, median -> TTC              *)
(*                                                                         *)
(* Numbers.  C++ double/float values are modelled exactly (no rounding):   *)
(* pixel coordinates of keypoints are counted in half pixels, match        *)
(* distances in halves, the shrink factor in ShrinkDen-ths, and computed   *)
(* doubles are extended rationals [k, n, d] (value, +-infinity, NaN).      *)
(* Conversions to int are modelled as the C++ conversions they are:        *)
(* truncation toward zero, or cvRound (round half to even).                *)
(***************************************************************************)
EXTENDS Integers, Sequences, FiniteSets, TLC

VARIABLES
    prevFrame,      \* DataFrame: [boundingBoxes, keypoints, lidarPoints]
    currFrame,      \* DataFrame: [boundingBoxes, keypoints, lidarPoints]
    matches,        \* std::vector<cv::DMatch>: [queryIdx, trainIdx, distance]
    shrinkFactor,   \* numerator of the float shrinkFactor, over ShrinkDen
    frameRate,      \* double frameRate (an integer number of frames/second)
    bbBestMatches,  \* std::map<int,int>: a function on its key set
    TTC,            \* double &TTC: an extended rational, or Unset
    distRatios,     \* computeTTCCamera's vector distRatios when it returns
    medianIndex,    \* the index computeTTCCamera read the median at (-1: none)
    ub,             \* the undefined operation the last call executed, or "none"
    crashed,        \* TRUE once the process was killed by a trap
    calls           \* how often each operation has been called

vars == <<prevFrame, currFrame, matches, shrinkFactor, frameRate,
          bbBestMatches, TTC, distRatios, medianIndex, ub, crashed, calls>>

---------------------------------------------------------------------------
(* Bounds of the model.                                                    *)

MaxCalls == 2          \* calls of one operation on the same data
MaxBoxes == 2          \* bounding boxes per frame
MaxLidarPts == 2       \* lidar points handed to clusterLidarWithROI
ShrinkDen == 4         \* shrink factors are 0/ShrinkDen .. (ShrinkDen-1)/ShrinkDen
MaxMatches == 3        \* matches handed to matchBoundingBoxes / clusterKptMatchesWithROI
MaxCamMatches == 4     \* matches handed to computeTTCCamera
MaxTTCPts == 3         \* lidar points per frame handed to computeTTCLidar

---------------------------------------------------------------------------
(* Integer helpers.                                                        *)

Abs(a) == IF a < 0 THEN -a ELSE a

\* C++ conversion of the real number a/b (b # 0) to int: toward zero.
TruncDiv(a, b) ==
    LET q == Abs(a) \div Abs(b)
    IN  IF (a < 0) = (b < 0) THEN q ELSE -q

RECURSIVE Gcd(_, _)
Gcd(a, b) == IF b = 0 THEN a ELSE Gcd(b, a % b)

Range(s) == {s[i] : i \in DOMAIN s}

\* All sequences over S of length lo..hi.
SeqsOf(S, lo, hi) == UNION {[1..n -> S] : n \in lo..hi}

---------------------------------------------------------------------------
(* Data structures (dataStructures.h as used by the source file).          *)

Rect(x, y, w, h) == [x |-> x, y |-> y, width |-> w, height |-> h]

\* cv::Rect_<int>::contains as the source uses it: half-open on both axes.
Contains(roi, pt) ==
    /\ roi.x <= pt.x /\ pt.x < roi.x + roi.width
    /\ roi.y <= pt.y /\ pt.y < roi.y + roi.height

\* A BoundingBox fresh from the detector: boxID is its position in the
\* frame's vector (0-based), both collections are empty.
NewBox(id, roi) ==
    [boxID |-> id, roi |-> roi, lidarPoints |-> <<>>, kptMatches |-> <<>>]

NewBoxes(rois) == [i \in DOMAIN rois |-> NewBox(i - 1, rois[i])]

EmptyFrame == [boundingBoxes |-> <<>>, keypoints |-> <<>>, lidarPoints |-> <<>>]

NoCalls == [cluster |-> 0, kpt |-> 0, match |-> 0, lidar |-> 0, camera |-> 0]

\* The value of a double that was never assigned.
Unset == [k |-> "unset", n |-> 0, d |-> 0]

EmptyMap == [key \in {} |-> 0]

---------------------------------------------------------------------------
(* clusterLidarWithROI (source lines 15-61).                               *)

\* Calibration handed in by the caller: projection (3x4), rectification
\* (4x4) and lidar-to-camera extrinsics (4x4; camera z = lidar x,
\* camera x = -lidar y, camera y = -lidar z).
P_rect_xx == << <<2, 0, 5, 0>>, <<0, 2, 2, 0>>, <<0, 0, 1, 0>> >>

R_rect_xx == << <<1, 0, 0, 0>>, <<0, 1, 0, 0>>, <<0, 0, 1, 0>>, <<0, 0, 0, 1>> >>

RT == << <<0, -1, 0, 0>>, <<0, 0, -1, 0>>, <<1, 0, 0, 0>>, <<0, 0, 0, 1>> >>

RECURSIVE Dot(_, _, _)
Dot(r, c, i) == IF i > Len(r) THEN 0 ELSE r[i] * c[i] + Dot(r, c, i + 1)

\* cv::Mat product A * B of matrices given as sequences of rows.
MatMul(A, B) ==
    [i \in DOMAIN A |->
        [j \in DOMAIN B[1] |-> Dot(A[i], [q \in DOMAIN B |-> B[q][j]], 1)]]

\* Lines 24-33: X = (x, y, z, 1), Y = P_rect_xx * R_rect_xx * RT * X, and the
\* pixel is (Y0 / Y2, Y1 / Y2) converted to int.  Y.at<double>(0, 2) of the
\* 3x1 matrix addresses its third element.
Calibration == MatMul(MatMul(P_rect_xx, R_rect_xx), RT)

Project(p) ==
    LET X == << <<p.x>>, <<p.y>>, <<p.z>>, <<1>> >>
        Y == MatMul(Calibration, X)
    IN  [x |-> TruncDiv(Y[1][1], Y[3][1]), y |-> TruncDiv(Y[2][1], Y[3][1])]

\* Mutant of SmallerBox with the signs of the shrink terms flipped: the box
\* grows instead of shrinking.
SmallerBoxGrown(roi, s) ==
    Rect(TruncDiv(2 * ShrinkDen * roi.x - s * roi.width, 2 * ShrinkDen),
         TruncDiv(2 * ShrinkDen * roi.y - s * roi.height, 2 * ShrinkDen),
         TruncDiv(roi.width * (ShrinkDen + s), ShrinkDen),
         TruncDiv(roi.height * (ShrinkDen + s), ShrinkDen))

\* Lines 39-43 with shrinkFactor = s / ShrinkDen; every field is a double
\* expression stored into an int.
SmallerBox(roi, s) ==
    Rect(TruncDiv(2 * ShrinkDen * roi.x + s * roi.width, 2 * ShrinkDen),
         TruncDiv(2 * ShrinkDen * roi.y + s * roi.height, 2 * ShrinkDen),
         TruncDiv(roi.width * (ShrinkDen - s), ShrinkDen),
         TruncDiv(roi.height * (ShrinkDen - s), ShrinkDen))

\* Lines 35-51: the boxes (by position) whose shrunk rectangle contains pt,
\* in iteration order.
RECURSIVE EnclosingBoxes(_, _, _, _)
EnclosingBoxes(boxes, pt, s, it2) ==
    IF it2 > Len(boxes) THEN <<>>
    ELSE (IF Contains(SmallerBox(boxes[it2].roi, s), pt) THEN <<it2>> ELSE <<>>)
         \o EnclosingBoxes(boxes, pt, s, it2 + 1)

\* Mutant of AssignPoint: the first enclosing box takes the point.
AssignPointFirstWins(boxes, enclosingBoxes, p) ==
    IF Len(enclosingBoxes) >= 1
    THEN [boxes EXCEPT ![enclosingBoxes[1]].lidarPoints = Append(@, p)]
    ELSE boxes

\* Mutant of AssignPoint: a point the box already holds is not added again.
AssignPointOnce(boxes, enclosingBoxes, p) ==
    IF Len(enclosingBoxes) = 1
       /\ p \notin Range(boxes[enclosingBoxes[1]].lidarPoints)
    THEN [boxes EXCEPT ![enclosingBoxes[1]].lidarPoints = Append(@, p)]
    ELSE boxes

\* Lines 54-58: the point is added to the box only when exactly one encloses it.
AssignPoint(boxes, enclosingBoxes, p) ==
    IF Len(enclosingBoxes) = 1
    THEN [boxes EXCEPT ![enclosingBoxes[1]].lidarPoints = Append(@, p)]
    ELSE boxes

\* Lines 21-60: the loop over all lidar points, from position it1 on.
RECURSIVE ClusterLoop(_, _, _, _)
ClusterLoop(boxes, pts, s, it1) ==
    IF it1 > Len(pts) THEN boxes
    ELSE ClusterLoop(
            AssignPoint(boxes, EnclosingBoxes(boxes, Project(pts[it1]), s, 1), pts[it1]),
            pts, s, it1 + 1)

clusterLidarWithROI ==
    /\ ~crashed
    /\ calls.cluster < MaxCalls
    /\ currFrame' = [currFrame EXCEPT !.boundingBoxes =
                        ClusterLoop(@, currFrame.lidarPoints, shrinkFactor, 1)]
    /\ calls' = [calls EXCEPT !.cluster = @ + 1]
    /\ ub' = "none"
    /\ UNCHANGED <<prevFrame, matches, shrinkFactor, frameRate, bbBestMatches,
                   TTC, distRatios, medianIndex, crashed>>

\* Inputs of the clustering scenario.
LidarPool ==
    { [x |-> 2, y |-> 4, z |-> 1, r |-> 0],     \* pixel (1, 1)
      [x |-> 2, y |-> 0, z |-> 1, r |-> 0],     \* pixel (5, 1)
      [x |-> 4, y |-> -3, z |-> 2, r |-> 0],    \* pixel (6, 1)
      [x |-> 2, y |-> -4, z |-> 1, r |-> 0],    \* pixel (9, 1)
      [x |-> 2, y |-> 0, z |-> -8, r |-> 0] }   \* pixel (5, 10)

RoiPool ==
    { Rect(0, 0, 8, 4), Rect(4, 0, 8, 4), Rect(8, 0, 5, 3) }

InitCluster ==
    /\ \E rois \in SeqsOf(RoiPool, 1, MaxBoxes) :
         \E pts \in SeqsOf(LidarPool, 0, MaxLidarPts) :
           currFrame = [boundingBoxes |-> NewBoxes(rois), keypoints |-> <<>>,
                        lidarPoints |-> pts]
    /\ shrinkFactor \in 0..(ShrinkDen - 1)
    /\ prevFrame = EmptyFrame
    /\ matches = <<>>
    /\ frameRate = 10
    /\ bbBestMatches = EmptyMap
    /\ TTC = Unset
    /\ distRatios = <<>>
    /\ medianIndex = -1
    /\ ub = "none"
    /\ crashed = FALSE
    /\ calls = NoCalls

SpecCluster == InitCluster /\ [][clusterLidarWithROI]_vars

---------------------------------------------------------------------------
(* Claims about clusterLidarWithROI.                                       *)

\* Number of positions of sequence s holding value v.
Count(s, v) == Cardinality({i \in DOMAIN s : s[i] = v})

\* The boxes (positions) whose shrunk rectangle contains the projection of p.
EnclosingSet(p, s) ==
    {b \in DOMAIN currFrame.boundingBoxes :
        Contains(SmallerBox(currFrame.boundingBoxes[b].roi, s), Project(p))}

\* Two rectangles share at least one pixel.
Overlap(a, b) ==
    /\ a.x < b.x + b.width /\ b.x < a.x + a.width
    /\ a.y < b.y + b.height /\ b.y < a.y + a.height

PairwiseDisjoint(boxes) ==
    \A a, b \in DOMAIN boxes : a # b => ~Overlap(boxes[a].roi, boxes[b].roi)

\* The result of one run with shrink factor s on the current frame's boxes
\* with their collections emptied.
RunFromEmpty(s) ==
    ClusterLoop([b \in DOMAIN currFrame.boundingBoxes |->
                    NewBox(currFrame.boundingBoxes[b].boxID,
                           currFrame.boundingBoxes[b].roi)],
                currFrame.lidarPoints, s, 1)

\* C1: after one call on boxes whose collections were empty, a lidar point is
\* in box b's collection exactly once if b is the only box whose shrunk
\* rectangle contains the point's pixel, and in no collection otherwise (no
\* enclosing box, or two or more).  Equal points are counted per occurrence.
C1_UniqueEnclosingBox ==
    calls.cluster = 1 =>
        \A b \in DOMAIN currFrame.boundingBoxes :
            \A v \in Range(currFrame.lidarPoints)
                     \cup Range(currFrame.boundingBoxes[b].lidarPoints) :
                Count(currFrame.boundingBoxes[b].lidarPoints, v)
                  = Cardinality({i \in DOMAIN currFrame.lidarPoints :
                                    /\ currFrame.lidarPoints[i] = v
                                    /\ EnclosingSet(v, shrinkFactor) = {b}})

\* C1 witness: one call has run on a frame holding a point with a unique
\* enclosing box (kept) and a point in the overlap of two boxes (dropped).
C1_Witness ==
    /\ calls.cluster = 1
    /\ \E p, q \in Range(currFrame.lidarPoints) :
          /\ Cardinality(EnclosingSet(p, shrinkFactor)) = 1
          /\ \E b \in EnclosingSet(p, shrinkFactor) :
                Count(currFrame.boundingBoxes[b].lidarPoints, p) = 1
          /\ Cardinality(EnclosingSet(q, shrinkFactor)) >= 2
          /\ \A b \in DOMAIN currFrame.boundingBoxes :
                Count(currFrame.boundingBoxes[b].lidarPoints, q) = 0

\* C2 (as claimed): a run with shrink factor s2 gives no box more points than
\* a run with any smaller shrink factor s1 on the same boxes and points.
C2_MonotoneInShrinkFactor ==
    calls.cluster = 1 =>
        \A s1 \in 0..(shrinkFactor - 1) :
            \A b \in DOMAIN currFrame.boundingBoxes :
                Len(currFrame.boundingBoxes[b].lidarPoints)
                    <= Len(RunFromEmpty(s1)[b].lidarPoints)

\* C2 (amended): when no two boxes' unshrunk rectangles overlap, a run with
\* any shrink factor gives no box more points than the run with shrink
\* factor 0.
C2_NoGainOverUnshrunkWhenDisjoint ==
    (calls.cluster = 1 /\ PairwiseDisjoint(currFrame.boundingBoxes)) =>
        \A b \in DOMAIN currFrame.boundingBoxes :
            Len(currFrame.boundingBoxes[b].lidarPoints)
                <= Len(RunFromEmpty(0)[b].lidarPoints)

\* C2 witness: disjoint boxes, a positive shrink factor, and a box that keeps
\* a point but fewer than it gets unshrunk.
C2_Witness ==
    /\ calls.cluster = 1
    /\ shrinkFactor > 0
    /\ Len(currFrame.boundingBoxes) >= 2
    /\ PairwiseDisjoint(currFrame.boundingBoxes)
    /\ \E b \in DOMAIN currFrame.boundingBoxes :
          /\ Len(currFrame.boundingBoxes[b].lidarPoints) > 0
          /\ Len(currFrame.boundingBoxes[b].lidarPoints)
                < Len(RunFromEmpty(0)[b].lidarPoints)

---------------------------------------------------------------------------
(* Keypoints and matches.  A cv::KeyPoint's pt is a Point2f; its            *)
(* coordinates are counted in half pixels.  A cv::DMatch is                 *)
(* [queryIdx, trainIdx, distance], the indices 0-based as in C++ and the    *)
(* float distance counted in halves.                                        *)

KeyPoint(hx, hy) == [pt |-> [x |-> hx, y |-> hy]]

DMatch(q, t, dist) == [queryIdx |-> q, trainIdx |-> t, distance |-> dist]

\* vector[i] for a 0-based C++ index.
At(vec, i) == vec[i + 1]

\* cvRound of h/2: to the nearest integer, halves to the even neighbour.
CvRound(h) ==
    LET k == h \div 2
    IN  IF h % 2 = 0 THEN k ELSE IF k % 2 = 0 THEN k ELSE k + 1

\* Point2f -> Point2i by the conversion operator of cv::Point_, which uses
\* saturate_cast<int> (cvRound): what roi.contains(keypoint.pt) applies.
RoundedPoint(pt) == [x |-> CvRound(pt.x), y |-> CvRound(pt.y)]

\* cv::Point(kpt.pt.x, kpt.pt.y): each float converted to int by truncation.
TruncatedPoint(pt) == [x |-> TruncDiv(pt.x, 2), y |-> TruncDiv(pt.y, 2)]

---------------------------------------------------------------------------
(* matchBoundingBoxes (source lines 260-326).                              *)

INT_MIN == -2147483647 - 1

\* Lines 289-293 and 295-303: the boxID of the last box of the frame whose
\* roi contains the keypoint; id (-1) if none does.
RECURSIVE LastEnclosingID(_, _, _, _)
LastEnclosingID(boxes, pt, i, id) ==
    IF i > Len(boxes) THEN id
    ELSE LastEnclosingID(boxes, pt, i + 1,
            IF Contains(boxes[i].roi, RoundedPoint(pt)) THEN boxes[i].boxID ELSE id)

\* Lines 306-308: the cell is incremented when both IDs were found.
CountMatch(matchMatrix, currID, prevID) ==
    IF currID # -1 /\ prevID # -1
    THEN [matchMatrix EXCEPT ![currID][prevID] = @ + 1]
    ELSE matchMatrix

\* Lines 284-310: the loop over the matches, from position m on.
RECURSIVE VoteLoop(_, _, _, _, _)
VoteLoop(matchMatrix, ms, prev, curr, m) ==
    IF m > Len(ms) THEN matchMatrix
    ELSE VoteLoop(
            CountMatch(matchMatrix,
                LastEnclosingID(curr.boundingBoxes,
                                At(curr.keypoints, ms[m].trainIdx).pt, 1, -1),
                LastEnclosingID(prev.boundingBoxes,
                                At(prev.keypoints, ms[m].queryIdx).pt, 1, -1)),
            ms, prev, curr, m + 1)

\* Lines 276-310: int matchMatrix[currSize][prevSize] = { } after the votes.
MatchMatrix(ms, prev, curr) ==
    VoteLoop([i \in 0..(Len(curr.boundingBoxes) - 1) |->
                 [j \in 0..(Len(prev.boundingBoxes) - 1) |-> 0]],
             ms, prev, curr, 1)

\* Mutant of IsNewMax: >= lets a later column win a tie.
IsNewMaxOrEqual(count, maxCount) == count >= maxCount

\* Line 316: the comparison that replaces the best column so far.
IsNewMax(count, maxCount) == count > maxCount

\* Lines 313-320: the scan of one row, from column j on.
RECURSIVE ScanRow(_, _, _, _, _)
ScanRow(row, prevSize, j, maxCount, index) ==
    IF j >= prevSize THEN index
    ELSE IF IsNewMax(row[j], maxCount)
         THEN ScanRow(row, prevSize, j + 1, row[j], j)
         ELSE ScanRow(row, prevSize, j + 1, maxCount, index)

\* Lines 312-322: bbBestMatches[i] = index for every row i; other keys stay.
BestMatches(old, matchMatrix, currSize, prevSize) ==
    [key \in DOMAIN old \cup 0..(currSize - 1) |->
        IF key \in 0..(currSize - 1)
        THEN ScanRow(matchMatrix[key], prevSize, 0, INT_MIN, 0)
        ELSE old[key]]

matchBoundingBoxes ==
    /\ ~crashed
    /\ calls.match < MaxCalls
    /\ bbBestMatches' = BestMatches(bbBestMatches,
                                    MatchMatrix(matches, prevFrame, currFrame),
                                    Len(currFrame.boundingBoxes),
                                    Len(prevFrame.boundingBoxes))
    /\ calls' = [calls EXCEPT !.match = @ + 1]
    /\ ub' = "none"
    /\ UNCHANGED <<prevFrame, currFrame, matches, shrinkFactor, frameRate,
                   TTC, distRatios, medianIndex, crashed>>

\* Inputs of the association scenario: n boxes in a row, each overlapping
\* its neighbour; three keypoints per frame (pixels 2, 7.5, 12.5 and
\* 2, 5, 9.5 on row 1); two lidar points in the current frame (pixels
\* (1, 1) and (5, 1)).
RowOfBoxes(n) == NewBoxes([i \in 1..n |-> Rect(4 * (i - 1), 0, 8, 4)])

KptsCurr == << KeyPoint(4, 2), KeyPoint(15, 2), KeyPoint(25, 2) >>

KptsPrev == << KeyPoint(4, 2), KeyPoint(10, 2), KeyPoint(19, 2) >>

LidarCurr == << [x |-> 2, y |-> 4, z |-> 1, r |-> 0],
               [x |-> 2, y |-> 0, z |-> 1, r |-> 0] >>

MatchPool == {DMatch(q, t, 2) : q \in 0..2, t \in 0..1}

InitMatch ==
    /\ \E n \in 0..MaxBoxes :
         currFrame = [boundingBoxes |-> RowOfBoxes(n), keypoints |-> KptsCurr,
                      lidarPoints |-> LidarCurr]
    /\ \E n \in 0..MaxBoxes :
         prevFrame = [boundingBoxes |-> RowOfBoxes(n), keypoints |-> KptsPrev,
                      lidarPoints |-> <<>>]
    /\ matches \in SeqsOf(MatchPool, 0, MaxMatches)
    /\ shrinkFactor = 0
    /\ frameRate = 10
    /\ bbBestMatches = EmptyMap
    /\ TTC = Unset
    /\ distRatios = <<>>
    /\ medianIndex = -1
    /\ ub = "none"
    /\ crashed = FALSE
    /\ calls = NoCalls

SpecMatch == InitMatch /\ [][matchBoundingBoxes]_vars

\* The frame pair of the association scenario under both region operations.
NextRegions == clusterLidarWithROI \/ matchBoundingBoxes

SpecRegions == InitMatch /\ [][NextRegions]_vars

---------------------------------------------------------------------------
(* Claims about matchBoundingBoxes.                                        *)

\* The vote matrix of the current inputs.
Votes == MatchMatrix(matches, prevFrame, currFrame)

PrevIDs == {prevFrame.boundingBoxes[b].boxID : b \in DOMAIN prevFrame.boundingBoxes}

CurrIDs == {currFrame.boundingBoxes[b].boxID : b \in DOMAIN currFrame.boundingBoxes}

RECURSIVE SumOver(_, _)
SumOver(f, S) ==
    IF S = {} THEN 0
    ELSE LET e == CHOOSE e \in S : TRUE IN f[e] + SumOver(f, S \ {e})

\* C3: after matchBoundingBoxes the map has exactly one entry per current
\* box, keyed by its boxID; the value is the previous boxID with the highest
\* count in that row of the vote matrix, the lowest such ID on a tie, and 0
\* for a row without votes; a previous box holding a strict majority of the
\* row's votes is the value.
C3_BestMatchIsRowMaximum ==
    calls.match >= 1 =>
        LET V == Votes
        IN  /\ DOMAIN bbBestMatches = CurrIDs
            /\ \A i \in CurrIDs :
                  LET best == bbBestMatches[i]
                  IN  /\ (\A j \in PrevIDs : V[i][j] = 0) => best = 0
                      /\ PrevIDs # {} =>
                            /\ best \in PrevIDs
                            /\ \A j \in PrevIDs : V[i][j] <= V[i][best]
                            /\ \A j \in PrevIDs : j < best => V[i][j] < V[i][best]
                      /\ \A j \in PrevIDs :
                            2 * V[i][j] > SumOver(V[i], PrevIDs) => best = j

\* C3 witness: the call has run on a frame pair where one row has all its
\* votes on a previous box other than 0 (a strict majority, chosen) and
\* another row is tied between two previous boxes (the lower ID chosen).
C3_Witness ==
    /\ calls.match = 1
    /\ LET V == Votes
       IN  \E i, k \in CurrIDs :
              /\ i # k
              /\ \E j \in PrevIDs :
                    /\ j # 0
                    /\ 2 * V[i][j] > SumOver(V[i], PrevIDs)
                    /\ bbBestMatches[i] = j
              /\ \E j1, j2 \in PrevIDs :
                    /\ j1 < j2
                    /\ V[k][j1] = V[k][j2]
                    /\ V[k][j1] > 0
                    /\ bbBestMatches[k] = j1

---------------------------------------------------------------------------
(* Claims about repeated calls.                                            *)

\* C8 (as claimed): a repeated call of clusterLidarWithROI leaves every
\* box's point collection as the first call left it, and a repeated call of
\* matchBoundingBoxes leaves the map as the first call left it.
C8_BothIdempotent ==
    [][/\ (calls.cluster >= 1 /\ calls'.cluster = calls.cluster + 1)
            => currFrame'.boundingBoxes = currFrame.boundingBoxes
       /\ (calls.match >= 1 /\ calls'.match = calls.match + 1)
            => bbBestMatches' = bbBestMatches]_vars

\* C8 (amended): a repeated call of matchBoundingBoxes leaves the map
\* unchanged; a repeated call of clusterLidarWithROI appends to every box's
\* collection the points the first call appended (the first 1/n of the
\* collection after n calls), leaving the rois and everything else alone.
C8_MatchIdempotentClusterAppends ==
    [][/\ (calls.cluster >= 1 /\ calls'.cluster = calls.cluster + 1)
            => /\ DOMAIN currFrame'.boundingBoxes = DOMAIN currFrame.boundingBoxes
               /\ \A b \in DOMAIN currFrame.boundingBoxes :
                    LET old == currFrame.boundingBoxes[b]
                        first == SubSeq(old.lidarPoints, 1,
                                        Len(old.lidarPoints) \div calls.cluster)
                    IN  currFrame'.boundingBoxes[b] =
                            [old EXCEPT !.lidarPoints = @ \o first]
       /\ (calls.match >= 1 /\ calls'.match = calls.match + 1)
            => bbBestMatches' = bbBestMatches]_vars

\* C8 witness: both operations have run twice on a frame pair where the first
\* clustering call gave some box a point and the map holds a non-zero value.
C8_Witness ==
    /\ calls.cluster = 2
    /\ calls.match = 2
    /\ \E b \in DOMAIN currFrame.boundingBoxes :
          Len(currFrame.boundingBoxes[b].lidarPoints) = 2
    /\ \E i \in DOMAIN bbBestMatches : bbBestMatches[i] # 0

---------------------------------------------------------------------------
(* clusterKptMatchesWithROI (source lines 134-160).                        *)

\* Lines 141-150: the matches whose train keypoint, truncated to a pixel,
\* is contained in the roi, in order (kptsRoi), from position m on.
RECURSIVE KptsRoi(_, _, _, _)
KptsRoi(roi, kptsCurr, ms, m) ==
    IF m > Len(ms) THEN <<>>
    ELSE (IF Contains(roi, TruncatedPoint(At(kptsCurr, ms[m].trainIdx).pt))
          THEN <<ms[m]>> ELSE <<>>)
         \o KptsRoi(roi, kptsCurr, ms, m + 1)

\* Line 151, std::accumulate(begin, end, 0): the accumulator has the type of
\* the initial value, int, so every partial sum acc + distance is converted
\* back to int (distance is counted in halves).
RECURSIVE Accumulate(_, _, _)
Accumulate(kptsRoi, i, acc) ==
    IF i > Len(kptsRoi) THEN acc
    ELSE Accumulate(kptsRoi, i + 1, TruncDiv(2 * acc + kptsRoi[i].distance, 2))

\* Line 151: long meanDist = sum / size, an integer division (size > 0).
MeanDist(kptsRoi) == Accumulate(kptsRoi, 1, 0) \div Len(kptsRoi)

\* Mutant of BelowThreshold: the factor 0.7 is left out.
BelowThresholdNoFactor(distance, meanDist) == distance < 2 * meanDist

\* Lines 152 and 155: distance < 0.7 * meanDist, with distance in halves.
BelowThreshold(distance, meanDist) == 5 * distance < 7 * meanDist

\* Lines 154-158: the kept matches, in order, from position i on.
RECURSIVE KeptMatches(_, _, _)
KeptMatches(kptsRoi, meanDist, i) ==
    IF i > Len(kptsRoi) THEN <<>>
    ELSE (IF BelowThreshold(kptsRoi[i].distance, meanDist)
          THEN <<kptsRoi[i]>> ELSE <<>>)
         \o KeptMatches(kptsRoi, meanDist, i + 1)

\* The call on box b of the current frame.  With no candidate, line 151
\* divides the int 0 by the size 0: an integer division by zero, which traps
\* (SIGFPE) or yields some value by which nothing is then filtered.
clusterKptMatchesWithROI ==
    /\ ~crashed
    /\ calls.kpt < MaxCalls
    /\ calls' = [calls EXCEPT !.kpt = @ + 1]
    /\ \E b \in DOMAIN currFrame.boundingBoxes :
         LET kptsRoi == KptsRoi(currFrame.boundingBoxes[b].roi,
                                currFrame.keypoints, matches, 1)
         IN  \/ /\ Len(kptsRoi) > 0
                /\ currFrame' = [currFrame EXCEPT !.boundingBoxes[b].kptMatches =
                                    @ \o KeptMatches(kptsRoi, MeanDist(kptsRoi), 1)]
                /\ ub' = "none"
                /\ crashed' = FALSE
             \/ /\ Len(kptsRoi) = 0
                /\ ub' = "division by zero"
                /\ crashed' \in BOOLEAN
                /\ UNCHANGED currFrame
    /\ UNCHANGED <<prevFrame, matches, shrinkFactor, frameRate, bbBestMatches,
                   TTC, distRatios, medianIndex>>

\* Inputs of the filter scenario: a row of boxes, the three current
\* keypoints, matches with distances 0.5, 1.5, 3 and 5.
DistPool == {1, 3, 6, 10}

KptMatchPool == {DMatch(0, t, dist) : t \in 0..2, dist \in DistPool}

InitKpt ==
    /\ \E n \in 1..MaxBoxes :
         currFrame = [boundingBoxes |-> RowOfBoxes(n), keypoints |-> KptsCurr,
                      lidarPoints |-> <<>>]
    /\ prevFrame = [boundingBoxes |-> <<>>, keypoints |-> KptsPrev,
                    lidarPoints |-> <<>>]
    /\ matches \in SeqsOf(KptMatchPool, 0, MaxMatches)
    /\ shrinkFactor = 0
    /\ frameRate = 10
    /\ bbBestMatches = EmptyMap
    /\ TTC = Unset
    /\ distRatios = <<>>
    /\ medianIndex = -1
    /\ ub = "none"
    /\ crashed = FALSE
    /\ calls = NoCalls

SpecKpt == InitKpt /\ [][clusterKptMatchesWithROI]_vars

---------------------------------------------------------------------------
(* Claims about clusterKptMatchesWithROI.                                  *)

\* The keypoint (half pixels) lies inside the rectangle (pixels).
InsideRoi(roi, pt) ==
    /\ 2 * roi.x <= pt.x /\ pt.x < 2 * (roi.x + roi.width)
    /\ 2 * roi.y <= pt.y /\ pt.y < 2 * (roi.y + roi.height)

\* The positions of the matches that are candidates of box b.
CandidatesOf(b) ==
    {m \in DOMAIN matches :
        InsideRoi(currFrame.boundingBoxes[b].roi,
                  At(currFrame.keypoints, matches[m].trainIdx).pt)}

RECURSIVE SumDistances(_)
SumDistances(S) ==
    IF S = {} THEN 0
    ELSE LET m == CHOOSE m \in S : TRUE
         IN  matches[m].distance + SumDistances(S \ {m})

\* C5 (as claimed): when no match has its current keypoint inside the
\* rectangle of any box the call can be given, the call completes, appends
\* nothing, and divides by no empty count.
C5_NoCandidateCompletes ==
    (calls.kpt >= 1 /\ \A b \in DOMAIN currFrame.boundingBoxes : CandidatesOf(b) = {})
        => /\ ~crashed
           /\ ub = "none"
           /\ \A b \in DOMAIN currFrame.boundingBoxes :
                 currFrame.boundingBoxes[b].kptMatches = <<>>

\* C6: every match found in a box's kptMatches is a candidate of that box and
\* its distance is strictly below 0.7 times the arithmetic mean of the
\* distances of all the box's candidates
\* (d < 0.7 * sum / n, i.e. 10 * n * d < 7 * sum).
C6_KeptBelowThreshold ==
    \A b \in DOMAIN currFrame.boundingBoxes :
        LET cand == CandidatesOf(b)
            total == SumDistances(cand)
        IN  \A k \in Range(currFrame.boundingBoxes[b].kptMatches) :
                /\ \E m \in cand : matches[m] = k
                /\ 10 * Cardinality(cand) * k.distance < 7 * total

\* C6 witness: a call on a box with several candidates kept one and dropped
\* another.
C6_Witness ==
    /\ calls.kpt = 1
    /\ \E b \in DOMAIN currFrame.boundingBoxes :
          /\ Cardinality(CandidatesOf(b)) >= 2
          /\ currFrame.boundingBoxes[b].kptMatches # <<>>
          /\ \E m \in CandidatesOf(b) :
                matches[m] \notin Range(currFrame.boundingBoxes[b].kptMatches)

---------------------------------------------------------------------------
(* Doubles as extended rationals: [k |-> "val", n, d] is n/d in lowest      *)
(* terms with d > 0; [k |-> "inf", n |-> +-1] is +-infinity; NaN.  Every    *)
(* zero that reaches a denominator in the source is a +0 (a count, or a     *)
(* difference of equal values), so x/0 takes the sign of x.                 *)

NaN == [k |-> "nan", n |-> 0, d |-> 0]

Inf(sign) == [k |-> "inf", n |-> sign, d |-> 0]

Sign(a) == IF a > 0 THEN 1 ELSE IF a < 0 THEN -1 ELSE 0

\* The double n/d for integers n and d.
Rat(n, d) ==
    IF d = 0 THEN (IF n = 0 THEN NaN ELSE Inf(Sign(n)))
    ELSE LET g == Gcd(Abs(n), Abs(d))
         IN  [k |-> "val", n |-> Sign(d) * (n \div g), d |-> Abs(d) \div g]

Num(a) == Rat(a, 1)

DDiv(a, b) ==
    IF a.k = "nan" \/ b.k = "nan" THEN NaN
    ELSE IF a.k = "inf" THEN (IF b.k = "inf" THEN NaN
                              ELSE Inf(a.n * (IF b.n < 0 THEN -1 ELSE 1)))
    ELSE IF b.k = "inf" THEN Num(0)
    ELSE Rat(a.n * b.d, a.d * b.n)

DMul(a, b) ==
    IF a.k = "nan" \/ b.k = "nan" THEN NaN
    ELSE IF a.k = "inf" \/ b.k = "inf"
         THEN (IF a.n = 0 \/ b.n = 0 THEN NaN ELSE Inf(Sign(a.n) * Sign(b.n)))
    ELSE Rat(a.n * b.n, a.d * b.d)

DNeg(a) == [a EXCEPT !.n = -@]

DSub(a, b) ==
    IF a.k = "nan" \/ b.k = "nan" THEN NaN
    ELSE IF a.k = "inf" THEN (IF b.k = "inf" /\ b.n = a.n THEN NaN ELSE a)
    ELSE IF b.k = "inf" THEN DNeg(b)
    ELSE Rat(a.n * b.d - b.n * a.d, a.d * b.d)

\* a < b for doubles that are values.
DLess(a, b) == a.n * b.d < b.n * a.d

---------------------------------------------------------------------------
(* computeTTCLidar (source lines 217-257).  The two vectors handed in are   *)
(* the frames' lidarPoints.                                                 *)

LaneWidth == 4

InitialMinX == 1000000000

\* Lines 238 and 248: std::abs(it->y) <= laneWidth / 2.0.
InLane(p) == 2 * Abs(p.y) <= LaneWidth

\* Lines 236-243 and 246-252: the loop over one vector from position it on;
\* the result is the pair (minX, size).
RECURSIVE ClosestInLane(_, _, _, _)
ClosestInLane(pts, it, minX, size) ==
    IF it > Len(pts) THEN <<minX, size>>
    ELSE IF InLane(pts[it])
         THEN ClosestInLane(pts, it + 1,
                            IF minX > pts[it].x THEN pts[it].x ELSE minX, size + 1)
         ELSE ClosestInLane(pts, it + 1, minX, size)

\* Lines 244 and 254: minXPrev is divided by the count of in-lane points
\* twice.
MinXPrev(lidarPointsPrev) ==
    LET r == ClosestInLane(lidarPointsPrev, 1, InitialMinX, 0)
    IN  DDiv(DDiv(Num(r[1]), Num(r[2])), Num(r[2]))

\* Line 253: minXCurr is divided by the count of in-lane points once.
MinXCurr(lidarPointsCurr) ==
    LET r == ClosestInLane(lidarPointsCurr, 1, InitialMinX, 0)
    IN  DDiv(Num(r[1]), Num(r[2]))

\* Lines 231-256.
TTCLidar(lidarPointsPrev, lidarPointsCurr, rate) ==
    IF Len(lidarPointsCurr) = 0 \/ Len(lidarPointsPrev) = 0 THEN NaN
    ELSE LET minXPrev == MinXPrev(lidarPointsPrev)
             minXCurr == MinXCurr(lidarPointsCurr)
         IN  DDiv(DMul(minXCurr, DDiv(Num(1), Num(rate))),
                  DSub(minXPrev, minXCurr))

computeTTCLidar ==
    /\ ~crashed
    /\ calls.lidar < MaxCalls
    /\ TTC' = TTCLidar(prevFrame.lidarPoints, currFrame.lidarPoints, frameRate)
    /\ calls' = [calls EXCEPT !.lidar = @ + 1]
    /\ ub' = "none"
    /\ UNCHANGED <<prevFrame, currFrame, matches, shrinkFactor, frameRate,
                   bbBestMatches, distRatios, medianIndex, crashed>>

\* Inputs of the lidar TTC scenario: three in-lane points (one on the lane
\* edge) and one outside the lane.
TTCPool ==
    { [x |-> 8, y |-> 0, z |-> 0, r |-> 0],
      [x |-> 10, y |-> 0, z |-> 0, r |-> 0],
      [x |-> 12, y |-> -2, z |-> 0, r |-> 0],
      [x |-> 7, y |-> 3, z |-> 0, r |-> 0] }

FrameRates == {10, 20}

InitLidar ==
    /\ \E pts \in SeqsOf(TTCPool, 0, MaxTTCPts) :
         prevFrame = [boundingBoxes |-> <<>>, keypoints |-> <<>>, lidarPoints |-> pts]
    /\ \E pts \in SeqsOf(TTCPool, 0, MaxTTCPts) :
         currFrame = [boundingBoxes |-> <<>>, keypoints |-> <<>>, lidarPoints |-> pts]
    /\ frameRate \in FrameRates
    /\ matches = <<>>
    /\ shrinkFactor = 0
    /\ bbBestMatches = EmptyMap
    /\ TTC = Unset
    /\ distRatios = <<>>
    /\ medianIndex = -1
    /\ ub = "none"
    /\ crashed = FALSE
    /\ calls = NoCalls

SpecLidar == InitLidar /\ [][computeTTCLidar]_vars

---------------------------------------------------------------------------
(* Claims about computeTTCLidar.                                           *)

InLanePoints(pts) == {i \in DOMAIN pts : InLane(pts[i])}

\* The closest in-lane x-distance of a vector with an in-lane point.
ClosestDistance(pts) ==
    CHOOSE x \in {pts[i].x : i \in InLanePoints(pts)} :
        \A i \in InLanePoints(pts) : x <= pts[i].x

\* C4 (as claimed): with an in-lane point in each vector,
\* TTC = dC * (1 / frameRate) / (dP - dC) for the closest in-lane distances
\* dP and dC, whatever the number of in-lane points.
C4_TTCFromClosestDistances ==
    (/\ calls.lidar >= 1
     /\ InLanePoints(prevFrame.lidarPoints) # {}
     /\ InLanePoints(currFrame.lidarPoints) # {})
        => LET dP == Num(ClosestDistance(prevFrame.lidarPoints))
               dC == Num(ClosestDistance(currFrame.lidarPoints))
           IN  TTC = DDiv(DMul(dC, DDiv(Num(1), Num(frameRate))), DSub(dP, dC))

\* The claim's example is reproduced when each vector has one in-lane point:
\* dP = 10, dC = 8 and frameRate = 10 give 0.4 = 2/5.
C4_ExampleWithSinglePoints ==
    (/\ calls.lidar >= 1
     /\ frameRate = 10
     /\ prevFrame.lidarPoints = <<[x |-> 10, y |-> 0, z |-> 0, r |-> 0]>>
     /\ currFrame.lidarPoints = <<[x |-> 8, y |-> 0, z |-> 0, r |-> 0]>>)
        => TTC = Rat(2, 5)

---------------------------------------------------------------------------
(* computeTTCCamera (source lines 164-214).                                *)

MinDist == 100

\* The integer square root, by bisection on lo..hi.
RECURSIVE SqrtBetween(_, _, _)
SqrtBetween(a, lo, hi) ==
    IF lo >= hi THEN lo
    ELSE LET mid == (lo + hi + 1) \div 2
         IN  IF mid * mid <= a THEN SqrtBetween(a, mid, hi)
             ELSE SqrtBetween(a, lo, mid - 1)

\* cv::norm(p - q) of two Point2f, in half pixels.  The keypoints of this
\* model are placed so that every distance is a whole number of half
\* pixels, which makes the square root exact.
Norm(p, q) ==
    LET dx == p.x - q.x
        dy == p.y - q.y
    IN  SqrtBetween(dx * dx + dy * dy, 0, Abs(dx) + Abs(dy))

\* Line 188: distPrev > epsilon && distCurr >= minDist (distances in half
\* pixels; a distance of the model is 0 or at least half a pixel).
PassesSkipTests(distCurr, distPrev) == distPrev > 0 /\ distCurr >= 2 * MinDist

\* Lines 181-193: the ratio the pair (it1, it2) of matches contributes, if any.
RatioOf(kptsPrev, kptsCurr, m1, m2) ==
    LET distCurr == Norm(At(kptsCurr, m1.trainIdx).pt, At(kptsCurr, m2.trainIdx).pt)
        distPrev == Norm(At(kptsPrev, m1.queryIdx).pt, At(kptsPrev, m2.queryIdx).pt)
    IN  IF PassesSkipTests(distCurr, distPrev)
        THEN <<Rat(distCurr, distPrev)>> ELSE <<>>

\* Lines 175-194: the inner loop, it2 from position j (begin() + 1 at first)
\* to end().
RECURSIVE InnerLoop(_, _, _, _, _)
InnerLoop(kptsPrev, kptsCurr, ms, it1, it2) ==
    IF it2 > Len(ms) THEN <<>>
    ELSE RatioOf(kptsPrev, kptsCurr, ms[it1], ms[it2])
         \o InnerLoop(kptsPrev, kptsCurr, ms, it1, it2 + 1)

\* Lines 168-195: the outer loop, it1 from begin() to end() - 1 (exclusive);
\* positions are 1-based here, so it1 runs over 1..Len - 1 and it2 over
\* 2..Len.
RECURSIVE OuterLoop(_, _, _, _)
OuterLoop(kptsPrev, kptsCurr, ms, it1) ==
    IF it1 > Len(ms) - 1 THEN <<>>
    ELSE InnerLoop(kptsPrev, kptsCurr, ms, it1, 2)
         \o OuterLoop(kptsPrev, kptsCurr, ms, it1 + 1)

\* std::sort of the ratios (ascending), by insertion.
RECURSIVE Insert(_, _)
Insert(sorted, r) ==
    IF sorted = <<>> THEN <<r>>
    ELSE IF DLess(r, Head(sorted)) THEN <<r>> \o sorted
         ELSE <<Head(sorted)>> \o Insert(Tail(sorted), r)

RECURSIVE Sort(_)
Sort(s) == IF s = <<>> THEN <<>> ELSE Insert(Sort(Tail(s)), Head(s))

\* Lines 207-211: the 0-based index read as the median.
MedianIndex(size) == IF size % 2 = 0 THEN size \div 2 + 1 ELSE size \div 2

\* Lines 212-213.
TTCFromMedian(medianDistRatio, rate) ==
    DDiv(DNeg(DDiv(Num(1), Num(rate))), DSub(Num(1), medianDistRatio))

\* What a double read from memory that is not an element of the vector can
\* hold.
GarbageDoubles == {NaN, Inf(1), Num(0), Num(1), Rat(-7, 2)}

\* The call.  With an empty kptMatches, end() - 1 lies before begin(): the
\* outer loop is entered and reads a DMatch that does not exist; the process
\* is killed, or the call returns with whatever TTC that run computes.  With
\* an even number of ratios the median is read at size/2 + 1, which for two
\* ratios is past the end of the vector.
computeTTCCamera ==
    /\ ~crashed
    /\ calls.camera < MaxCalls
    /\ calls' = [calls EXCEPT !.camera = @ + 1]
    /\ \E ratios \in {OuterLoop(prevFrame.keypoints, currFrame.keypoints, matches, 1)} :
       LET sorted == Sort(ratios)
           index == MedianIndex(Len(ratios))
       IN  \/ /\ Len(matches) = 0
              /\ ub' = "iterator before begin"
              /\ \/ crashed' = TRUE /\ TTC' = TTC
                 \/ crashed' = FALSE /\ TTC' \in GarbageDoubles
              /\ UNCHANGED <<distRatios, medianIndex>>
           \/ /\ Len(matches) > 0
              /\ Len(ratios) = 0
              /\ TTC' = NaN
              /\ distRatios' = ratios
              /\ ub' = "none"
              /\ UNCHANGED <<medianIndex, crashed>>
           \/ /\ Len(ratios) > 0
              /\ index < Len(ratios)
              /\ TTC' = TTCFromMedian(At(sorted, index), frameRate)
              /\ distRatios' = sorted
              /\ medianIndex' = index
              /\ ub' = "none"
              /\ UNCHANGED crashed
           \/ /\ Len(ratios) > 0
              /\ index >= Len(ratios)
              /\ \E garbage \in GarbageDoubles :
                    TTC' = TTCFromMedian(garbage, frameRate)
              /\ distRatios' = sorted
              /\ medianIndex' = index
              /\ ub' = "read past the end"
              /\ UNCHANGED crashed
    /\ UNCHANGED <<prevFrame, currFrame, matches, shrinkFactor, frameRate,
                   bbBestMatches>>

\* Inputs of the camera TTC scenario (keypoints in half pixels).  Current
\* frame: distances 50 px (0-3) and 110 to 200 px (the others); previous
\* frame: keypoints 0 and 3 coincide, the other distances are 75 to 125 px.
CamKptsCurr ==
    << KeyPoint(0, 0), KeyPoint(240, 0), KeyPoint(0, 320), KeyPoint(0, 100) >>

CamKptsPrev ==
    << KeyPoint(0, 0), KeyPoint(200, 0), KeyPoint(0, 150), KeyPoint(0, 0) >>

CamMatchPool == {DMatch(q, t, 2) : q \in 0..3, t \in 0..3}

\* A matcher reports at most one match per query keypoint.
DistinctQueries(ms) ==
    \A i, j \in DOMAIN ms : i # j => ms[i].queryIdx # ms[j].queryIdx

InitCamera ==
    /\ prevFrame = [boundingBoxes |-> <<>>, keypoints |-> CamKptsPrev,
                    lidarPoints |-> <<>>]
    /\ currFrame = [boundingBoxes |-> <<>>, keypoints |-> CamKptsCurr,
                    lidarPoints |-> <<>>]
    /\ matches \in {ms \in SeqsOf(CamMatchPool, 0, MaxCamMatches) :
                        DistinctQueries(ms)}
    /\ frameRate \in FrameRates
    /\ shrinkFactor = 0
    /\ bbBestMatches = EmptyMap
    /\ TTC = Unset
    /\ distRatios = <<>>
    /\ medianIndex = -1
    /\ ub = "none"
    /\ crashed = FALSE
    /\ calls = NoCalls

SpecCamera == InitCamera /\ [][computeTTCCamera]_vars

---------------------------------------------------------------------------
(* Claims about computeTTCCamera.                                          *)

\* The unordered pairs {i, j}, i < j, of matches that pass the skip tests.
SurvivingPairs ==
    {pr \in (DOMAIN matches) \X (DOMAIN matches) :
        /\ pr[1] < pr[2]
        /\ RatioOf(prevFrame.keypoints, currFrame.keypoints,
                   matches[pr[1]], matches[pr[2]]) # <<>>}

PairRatio(pr) ==
    RatioOf(prevFrame.keypoints, currFrame.keypoints,
            matches[pr[1]], matches[pr[2]])[1]

\* C7 (as claimed): on every list of matches of which no pair survives the
\* skip tests (the empty list and the one-element list included) the call
\* returns and TTC is NaN.
C7_NoSurvivorGivesNaN ==
    (calls.camera >= 1 /\ SurvivingPairs = {}) => (~crashed /\ TTC = NaN)

\* C9 (as claimed): when ratios survive, the median is read at a valid index
\* of the sorted list, the middle one for an odd count and one of the two
\* middle ones for an even count, and TTC = -(1/frameRate) / (1 - median).
C9_MedianIsAMiddleElement ==
    (calls.camera >= 1 /\ ~crashed /\ Len(distRatios) > 0) =>
        LET size == Len(distRatios)
        IN  /\ medianIndex \in 0..(size - 1)
            /\ size % 2 = 1 => medianIndex = (size - 1) \div 2
            /\ size % 2 = 0 => medianIndex \in {size \div 2 - 1, size \div 2}
            /\ TTC = DDiv(DNeg(DDiv(Num(1), Num(frameRate))),
                          DSub(Num(1), At(distRatios, medianIndex)))

\* C10 (as claimed): distRatios holds exactly one ratio per unordered pair of
\* matches that passes the skip tests.
C10_OneRatioPerUnorderedPair ==
    (calls.camera >= 1 /\ ~crashed /\ Len(matches) > 0) =>
        \A r \in Range(distRatios) \cup {PairRatio(pr) : pr \in SurvivingPairs} :
            Count(distRatios, r)
                = Cardinality({pr \in SurvivingPairs : PairRatio(pr) = r})

===========================================================================
